---- MODULE Spec2Model ----
(***************************************************************************)
(* A model of the SDG spreadsheet validator (cesrsalad.py, utils.py).      *)
(*                                                                         *)
(* A string is a sequence of Unicode code points (naturals), so that       *)
(* Python's str comparison, strip(), splitlines() and the character        *)
(* classes of the target regular expression are computed and not assumed.  *)
(* A worksheet is a sequence of rows, a row a sequence of cells (strings). *)
(* Column numbers are 0-based as in the source; Cell() converts.           *)
(***************************************************************************)
EXTENDS Integers, Sequences, FiniteSets, TLC

VARIABLES
    pc,                  \* position of the running function
    rd,                  \* rd["sheet"]: the lines written to the report sheet
    wks,                 \* the worksheet being validated
    wks_target_mapping,  \* the companion worksheet of the concept-code test
    n,                   \* enumerate() index of the row loops
    mismatches,          \* findings of crossvalidate / finddups
    concepts_dict,       \* crossvalidate: first-seen [target_list, row] per code
    unique_dict,         \* finddups: cell values seen per id
    missing_in_sheet_1,  \* concept codes only in the target mapping sheet
    missing_in_sheet_2,  \* concept codes only in the mapping sheet
    prev,                \* results kept from an earlier invocation
    colval,              \* build_target_list: the cell text
    tlist,               \* build_target_list: the list returned
    token,               \* the string handed to syntax.match
    matched,             \* syntax.match(token) is not None
    colnumber,           \* the column a validator was called for
    args,                \* the command line flags
    score,               \* similarity.cosine_sim, as a table of its results
    n1,                  \* find_similar_text: index of the outer loop
    all_similar_lines,   \* find_similar_text: the pairs kept
    header_written,      \* find_similar_text: the Failed header is on the sheet
    scored,              \* find_similar_text: the calls made to cosine_sim
    worksheet_dict,      \* main: the worksheets downloaded, by title
    error,               \* main: the exception raised inside the try block
    reported,            \* main: the traceback and the error are printed
    exit_status          \* the exit status of the process, once it has ended

vars == <<pc, rd, wks, wks_target_mapping, n, mismatches, concepts_dict,
          unique_dict, missing_in_sheet_1, missing_in_sheet_2, prev, colval,
          tlist, token, matched, colnumber, args, score, n1,
          all_similar_lines, header_written, scored, worksheet_dict, error,
          reported, exit_status>>

-----------------------------------------------------------------------------
(* Characters *)

NL == 10
DOT == 46
QMARK == 63

\* str.splitlines() line boundaries: \n \v \f \r FS GS RS NEL LS PS
IsLineBreak(c) == c \in {10, 11, 12, 13, 28, 29, 30, 133, 8232, 8233}

\* str.isspace(): the characters str.strip() removes and str.split() splits on
IsSpace(c) ==
    c \in {9, 10, 11, 12, 13, 28, 29, 30, 31, 32, 133, 160, 5760, 8232, 8233,
           8239, 8287, 12288} \cup (8192..8202)

\* str.isalpha() on the ASCII range
IsAlpha(c) == c \in (65..90) \cup (97..122)

\* [0-9] of the regular expression
IsAsciiDigit(c) == c \in 48..57

\* \d of the regular expression: a str pattern matches every Unicode decimal
\* digit; the ASCII and the Arabic-Indic digits stand for them here
IsDigit(c) == c \in (48..57) \cup (1632..1641)

\* [a-z] of the regular expression
IsLower(c) == c \in 97..122

-----------------------------------------------------------------------------
(* Strings and lists *)

Range(s) == {s[i] : i \in DOMAIN s}

\* Python's str < : by code point, a proper prefix is smaller
RECURSIVE StrLess(_, _)
StrLess(a, b) ==
    IF b = <<>> THEN FALSE
    ELSE IF a = <<>> THEN TRUE
    ELSE IF Head(a) # Head(b) THEN Head(a) < Head(b)
    ELSE StrLess(Tail(a), Tail(b))

StrLeq(a, b) == a = b \/ StrLess(a, b)

RECURSIVE Insert(_, _)
Insert(x, s) ==
    IF s = <<>> THEN <<x>>
    ELSE IF StrLess(x, Head(s)) THEN <<x>> \o s
    ELSE <<Head(s)>> \o Insert(x, Tail(s))

\* list.sort() of a list of str
RECURSIVE ListSort(_)
ListSort(s) == IF s = <<>> THEN <<>> ELSE Insert(Head(s), ListSort(Tail(s)))

\* str.strip()
RECURSIVE LStrip(_)
LStrip(s) == IF s # <<>> /\ IsSpace(Head(s)) THEN LStrip(Tail(s)) ELSE s

RECURSIVE RStrip(_)
RStrip(s) ==
    IF s # <<>> /\ IsSpace(s[Len(s)]) THEN RStrip(SubSeq(s, 1, Len(s) - 1)) ELSE s

Strip(s) == RStrip(LStrip(s))

\* str.splitlines(): a boundary ends a line, \r\n is one boundary, and no
\* empty line follows a final boundary
RECURSIVE SplitFrom(_, _)
SplitFrom(s, cur) ==
    IF s = <<>> THEN (IF cur = <<>> THEN <<>> ELSE <<cur>>)
    ELSE IF IsLineBreak(Head(s))
         THEN IF Head(s) = 13 /\ Len(s) > 1 /\ s[2] = 10
              THEN <<cur>> \o SplitFrom(Tail(Tail(s)), <<>>)
              ELSE <<cur>> \o SplitFrom(Tail(s), <<>>)
         ELSE SplitFrom(Tail(s), Append(cur, Head(s)))

SplitLines(s) == SplitFrom(s, <<>>)

\* sep.join(list)
RECURSIVE Join(_, _)
Join(list, sep) ==
    IF list = <<>> THEN <<>>
    ELSE IF Len(list) = 1 THEN Head(list)
    ELSE Head(list) \o sep \o Join(Tail(list), sep)

-----------------------------------------------------------------------------
(* utils.py *)

\* matrix[row][col] with 0-based indices
Cell(matrix, row, col) == matrix[row + 1][col + 1]

get_column(matrix, colnumber_) ==
    [i \in DOMAIN matrix |-> matrix[i][colnumber_ + 1]]

StripNonEmpty(a) == Strip(a) # <<>>

\* the generator of line 14: the stripped lines that are not blank
nonempty(cv) ==
    LET kept == SelectSeq(SplitLines(cv), StripNonEmpty)
    IN  [i \in DOMAIN kept |-> Strip(kept[i])]

\* the test of line 15
TargetLed(a) == ~(IsAlpha(a[1]) \/ a[1] = QMARK)

\* build_target_list without the sort of line 16
BuildUnsorted(cv) == SelectSeq(nonempty(cv), TargetLed)

\* build_target_list testing the first character of the unstripped line
BuildTestUnstripped(cv) ==
    LET kept == SelectSeq(SelectSeq(SplitLines(cv), StripNonEmpty), TargetLed)
    IN  ListSort([i \in DOMAIN kept |-> Strip(kept[i])])

build_target_list(cv) == ListSort(SelectSeq(nonempty(cv), TargetLed))

get_target_list(worksheet, row, col) == build_target_list(Cell(worksheet, row, col))

\* `$` of the pattern (no MULTILINE): the end of the string, or just before a
\* newline that ends the string
AtDollar(s, p) == p = Len(s) + 1 \/ (p = Len(s) /\ s[p] = NL)

\* syntax.match(s) is not None, for "^\d{1,2}\.([0-9]{1,2}|[a-z])$"
SyntaxMatch(s) ==
    \E d \in 1..2 :
        /\ Len(s) >= d + 1
        /\ \A k \in 1..d : IsDigit(s[k])
        /\ s[d + 1] = DOT
        /\ \/ \E g \in 1..2 :
                 /\ Len(s) >= d + 1 + g
                 /\ \A k \in (d + 2)..(d + 1 + g) : IsAsciiDigit(s[k])
                 /\ AtDollar(s, d + 2 + g)
           \/ /\ Len(s) >= d + 2
              /\ IsLower(s[d + 2])
              /\ AtDollar(s, d + 3)

-----------------------------------------------------------------------------
(* Bounds and inputs *)

MaxCellLen == 5
MaxTokenLen == 5
MaxRows == 3

StringsOver(alphabet, maxlen) ==
    UNION {[1..k -> alphabet] : k \in 0..maxlen}

TablesOver(rows, maxlen) == UNION {[1..k -> rows] : k \in 0..maxlen}

\* "\n", "\r", " ", "1", "3", "?", "a"
CellAlphabet == {NL, 13, 32, 49, 51, QMARK, 97}

\* "\n", " ", ".", "1", "A", "a"
TokenAlphabet == {NL, 32, DOT, 49, 65, 97}

\* the variables of the functions that are not running
NoTables == wks = <<>> /\ wks_target_mapping = <<>> /\ colnumber = 0
NoRowLoop ==
    n = 0 /\ mismatches = <<>> /\ concepts_dict = <<>> /\ unique_dict = <<>>
NoDiff == missing_in_sheet_1 = {} /\ missing_in_sheet_2 = {}
NoExtract == colval = <<>> /\ tlist = <<>>
NoSyntax == token = <<>> /\ matched = FALSE
NoSimilar ==
    /\ args = [deeply_similar |-> FALSE, all_similar |-> FALSE]
    /\ score = <<>>
    /\ n1 = 0
    /\ all_similar_lines = <<>>
    /\ header_written = FALSE
    /\ scored = <<>>

NoMain ==
    /\ worksheet_dict = <<>>
    /\ error = "none"
    /\ reported = FALSE
    /\ exit_status = <<>>

tableVars == <<wks, wks_target_mapping, colnumber>>
rowLoopVars == <<n, mismatches, concepts_dict, unique_dict>>
diffVars == <<missing_in_sheet_1, missing_in_sheet_2>>
extractVars == <<colval, tlist>>
syntaxVars == <<token, matched>>
similarVars == <<args, score, n1, all_similar_lines, header_written, scored>>
mainVars == <<worksheet_dict, error, reported, exit_status>>

-----------------------------------------------------------------------------
(* build_target_list, called on a cell and then on its own output joined    *)
(* by newlines                                                              *)

ExtractInit ==
    /\ pc = "extract"
    /\ colval \in StringsOver(CellAlphabet, MaxCellLen)
    /\ tlist = <<>>
    /\ prev = <<>>
    /\ rd = <<>>
    /\ NoTables /\ NoRowLoop /\ NoDiff /\ NoSyntax /\ NoSimilar /\ NoMain

Extract ==
    /\ pc = "extract"
    /\ tlist' = build_target_list(colval)
    /\ pc' = "built"
    /\ UNCHANGED <<colval, prev, rd, tableVars, rowLoopVars, diffVars,
                   syntaxVars, similarVars, mainVars>>

ExtractAgain ==
    /\ pc = "built"
    /\ prev' = tlist
    /\ tlist' = build_target_list(Join(tlist, <<NL>>))
    /\ pc' = "rebuilt"
    /\ UNCHANGED <<colval, rd, tableVars, rowLoopVars, diffVars, syntaxVars,
                   similarVars, mainVars>>

ExtractNext == Extract \/ ExtractAgain

SpecExtract == ExtractInit /\ [][ExtractNext]_vars

-----------------------------------------------------------------------------
(* The target syntax, applied to a string                                   *)

SyntaxInit ==
    /\ pc = "syntax"
    /\ token \in StringsOver(TokenAlphabet, MaxTokenLen)
    /\ matched = FALSE
    /\ prev = <<>>
    /\ rd = <<>>
    /\ NoTables /\ NoRowLoop /\ NoDiff /\ NoExtract /\ NoSimilar /\ NoMain

Match ==
    /\ pc = "syntax"
    /\ matched' = SyntaxMatch(token)
    /\ pc' = "matched"
    /\ UNCHANGED <<token, prev, rd, tableVars, rowLoopVars, diffVars,
                   extractVars, similarVars, mainVars>>

SyntaxNext == Match

SpecSyntax == SyntaxInit /\ [][SyntaxNext]_vars

-----------------------------------------------------------------------------
(* The report sheet: rd["sheet"] is the sequence of lines written, and      *)
(* rd["row"] is 3 more than their number                                    *)

StatusLine(test, text) == <<"status", test, text>>
BlankLine == <<"blank">>
HeaderLine(test) == <<"header", test>>
DetailLine(test, cells) == <<"detail", test, cells>>

\* the members of S as a list, by increasing rank
RECURSIVE ByRank(_, _)
ByRank(S, rank) ==
    IF S = {} THEN <<>>
    ELSE LET k == CHOOSE k \in S : \A j \in S : rank[k] <= rank[j]
         IN  <<k>> \o ByRank(S \ {k}, rank)

RECURSIVE Flatten(_)
Flatten(ss) == IF ss = <<>> THEN <<>> ELSE Head(ss) \o Flatten(Tail(ss))

\* the rows "for x in mismatches: for items in mismatches[x]" writes, with
\* title_count added to each row number; keys come in insertion order, which
\* is the order of the row that put them in (the row of their entry `at`)
MismatchLines(test, m, at, title_count) ==
    LET keys == ByRank(DOMAIN m, [k \in DOMAIN m |-> m[k][at][2]])
    IN  Flatten([i \in DOMAIN keys |->
            [j \in DOMAIN m[keys[i]] |->
                DetailLine(test, <<keys[i], m[keys[i]][j][1],
                                   m[keys[i]][j][2] + title_count>>)]])

\* "items[1] += title_count" on every entry of mismatches
AddTitleCount(m, title_count) ==
    [k \in DOMAIN m |->
        [j \in DOMAIN m[k] |-> <<m[k][j][1], m[k][j][2] + title_count>>]]

-----------------------------------------------------------------------------
(* cesrsalad.py: validate_bia_sdg_mapping_sheet                             *)

ConceptCol == 0
DirectCol == 33
IndirectCol == 34
BiaTitleCount == 2

\* a row of the "BIA to SDG mapping" sheet; the cells no validator reads
\* are left empty
BiaRow(code, direct, indirect) ==
    [c \in 1..(IndirectCol + 1) |->
        IF c = ConceptCol + 1 THEN code
        ELSE IF c = DirectCol + 1 THEN direct
        ELSE IF c = IndirectCol + 1 THEN indirect
        ELSE <<>>]

\* "C1", "C2"
ConceptCodes == {<<67, 49>>, <<67, 50>>}

\* "3.1\n3.2", "3.2\n3.1", "3.2"
DirectCells ==
    {<<51, 46, 49, 10, 51, 46, 50>>, <<51, 46, 50, 10, 51, 46, 49>>,
     <<51, 46, 50>>}

\* "", "7.a"
IndirectCells == {<<>>, <<55, 46, 97>>}

\* full rows, and rows cut short after the concept code
BiaRows ==
    {BiaRow(c, d, i) : c \in ConceptCodes, d \in DirectCells, i \in IndirectCells}
    \cup {<<c>> : c \in ConceptCodes}

\* lines 133-140 comparing with the value of the latest row of the code
CrossvalidateLatest(cd, m, concept_code, target_list, row) ==
    IF concept_code \in DOMAIN cd
    THEN IF cd[concept_code][1] # target_list
         THEN <<[cd EXCEPT ![concept_code] = <<target_list, row>>],
                IF concept_code \notin DOMAIN m
                THEN m @@ (concept_code :>
                             <<cd[concept_code], <<target_list, row>>>>)
                ELSE m>>
         ELSE <<cd, m>>
    ELSE <<cd @@ (concept_code :> <<target_list, row>>), m>>

\* lines 133-140 without the append of line 137
CrossvalidateNoFirstSeen(cd, m, concept_code, target_list, row) ==
    IF concept_code \in DOMAIN cd
    THEN IF cd[concept_code][1] # target_list
         THEN IF concept_code \notin DOMAIN m
              THEN <<cd, m @@ (concept_code :> <<<<target_list, row>>>>)>>
              ELSE <<cd, m>>
         ELSE <<cd, m>>
    ELSE <<cd @@ (concept_code :> <<target_list, row>>), m>>

\* lines 133-140: the new <<concepts_dict, mismatches>> after one row.
\* mismatches[concept_code] is empty when line 136 reads it, so the first-seen
\* entry is always appended there
CrossvalidateRow(cd, m, concept_code, target_list, row) ==
    IF concept_code \in DOMAIN cd
    THEN IF cd[concept_code][1] # target_list
         THEN IF concept_code \notin DOMAIN m
              THEN <<cd, m @@ (concept_code :>
                             <<cd[concept_code], <<target_list, row>>>>)>>
              ELSE <<cd, m>>
         ELSE <<cd, m>>
    ELSE <<cd @@ (concept_code :> <<target_list, row>>), m>>

CrossInit ==
    /\ pc = "cross_loop"
    /\ wks \in TablesOver(BiaRows, MaxRows)
    /\ colnumber \in {DirectCol, IndirectCol}
    /\ wks_target_mapping = <<>>
    /\ n = 0
    /\ concepts_dict = <<>>
    /\ mismatches = <<>>
    /\ unique_dict = <<>>
    /\ prev = <<>>
    /\ rd = <<>>
    /\ NoDiff /\ NoExtract /\ NoSyntax /\ NoSimilar /\ NoMain

\* one iteration of the loop of line 129
CrossRow ==
    /\ pc = "cross_loop"
    /\ n < Len(wks)
    /\ Len(wks[n + 1]) > colnumber
    /\ LET new == CrossvalidateRow(concepts_dict, mismatches,
                     Cell(wks, n, ConceptCol),
                     get_target_list(wks, n, colnumber), n + 1)
       IN  concepts_dict' = new[1] /\ mismatches' = new[2]
    /\ n' = n + 1
    /\ UNCHANGED <<pc, rd, tableVars, unique_dict, prev, diffVars,
                   extractVars, syntaxVars, similarVars, mainVars>>

\* wks[row][col] of get_target_list raises IndexError on a short row
CrossRowRaises ==
    /\ pc = "cross_loop"
    /\ n < Len(wks)
    /\ Len(wks[n + 1]) <= colnumber
    /\ pc' = "raised"
    /\ UNCHANGED <<rd, tableVars, rowLoopVars, prev, diffVars, extractVars,
                   syntaxVars, similarVars, mainVars>>

\* lines 142-171: the status line and the table of mismatches. The entry
\* taken from concepts_dict is the same list object in both dictionaries, so
\* adding title_count to it shows in concepts_dict as well
CrossReport ==
    /\ pc = "cross_loop"
    /\ n = Len(wks)
    /\ rd' = rd \o
         IF DOMAIN mismatches = {}
         THEN <<StatusLine("cross", "Passed")>>
         ELSE <<StatusLine("cross", "Failed"), BlankLine, HeaderLine("cross")>>
              \o MismatchLines("cross", mismatches, 2, BiaTitleCount)
              \o <<BlankLine, BlankLine>>
    /\ mismatches' = AddTitleCount(mismatches, BiaTitleCount)
    /\ concepts_dict' =
         [k \in DOMAIN concepts_dict |->
             IF k \in DOMAIN mismatches
             THEN <<concepts_dict[k][1], concepts_dict[k][2] + BiaTitleCount>>
             ELSE concepts_dict[k]]
    /\ pc' = "cross_done"
    /\ UNCHANGED <<tableVars, n, unique_dict, prev, diffVars, extractVars,
                   syntaxVars, similarVars, mainVars>>

CrossNext == CrossRow \/ CrossRowRaises \/ CrossReport

SpecCross == CrossInit /\ [][CrossNext]_vars

-----------------------------------------------------------------------------
(* utils.py: finddups and build_finddups_report, on the "SDG Targets" sheet *)

GoalCol == 1
TargetCol == 2
TargetsTitleCount == 1

\* a row of the "SDG Targets" sheet
TargetsRow(goal, target) == <<<<>>, goal, target>>

\* "3", "3.", "3 x", "3. x", "4", " "
GoalCells ==
    {<<51>>, <<51, 46>>, <<51, 32, 120>>, <<51, 46, 32, 120>>, <<52>>, <<32>>}

\* "3.1 a", "3.1. b"
TargetCells == {<<51, 46, 49, 32, 97>>, <<51, 46, 49, 46, 32, 98>>}

TargetsRows ==
    {TargetsRow(g, t) : g \in GoalCells, t \in TargetCells} \cup {<<<<>>>>}

\* str.split()[0]: the first run of characters that are not whitespace
RECURSIVE UpToSpace(_)
UpToSpace(s) ==
    IF s = <<>> \/ IsSpace(Head(s)) THEN <<>>
    ELSE <<Head(s)>> \o UpToSpace(Tail(s))

FirstToken(s) == UpToSpace(LStrip(s))

\* line 61
Cid(x) == IF x[Len(x)] = DOT THEN SubSeq(x, 1, Len(x) - 1) ELSE x

\* unique_dict[cid], a defaultdict(set)
SeenFor(ud, cid) == IF cid \in DOMAIN ud THEN ud[cid] ELSE {}

\* mismatches[cid].append(entry), mismatches a defaultdict(list)
AppendTo(m, cid, entry) ==
    IF cid \in DOMAIN m THEN [m EXCEPT ![cid] = Append(@, entry)]
    ELSE m @@ (cid :> <<entry>>)

\* lines 60-64 recording every row, seen before or not
FinddupsRowEveryRow(ud, m, value, row) ==
    LET cid == Cid(FirstToken(value))
    IN  <<[k \in DOMAIN ud \cup {cid} |-> SeenFor(ud, k) \cup
                                         (IF k = cid THEN {value} ELSE {})],
          AppendTo(m, cid, <<value, row>>)>>

\* lines 60-64 with the first token itself for the id, its '.' kept
FinddupsRowKeepDot(ud, m, value, row) ==
    LET cid == FirstToken(value)
    IN  <<[k \in DOMAIN ud \cup {cid} |-> SeenFor(ud, k) \cup
                                         (IF k = cid THEN {value} ELSE {})],
          IF value \notin SeenFor(ud, cid)
          THEN AppendTo(m, cid, <<value, row>>)
          ELSE m>>

\* lines 60-64: the new <<unique_dict, mismatches>> after one row
FinddupsRow(ud, m, value, row) ==
    LET cid == Cid(FirstToken(value))
    IN  <<[k \in DOMAIN ud \cup {cid} |-> SeenFor(ud, k) \cup
                                         (IF k = cid THEN {value} ELSE {})],
          IF value \notin SeenFor(ud, cid)
          THEN AppendTo(m, cid, <<value, row>>)
          ELSE m>>

\* lines 66-67
FinddupsKeep(m) ==
    LET remove == {item \in DOMAIN m : Len(m[item]) > 1}
    IN  [k \in remove |-> m[k]]

DupsInit ==
    /\ pc = "dups_loop"
    /\ wks \in TablesOver(TargetsRows, MaxRows)
    /\ colnumber \in {GoalCol, TargetCol}
    /\ wks_target_mapping = <<>>
    /\ n = 0
    /\ concepts_dict = <<>>
    /\ mismatches = <<>>
    /\ unique_dict = <<>>
    /\ prev = <<>>
    /\ rd = <<>>
    /\ NoDiff /\ NoExtract /\ NoSyntax /\ NoSimilar /\ NoMain

\* item[colnumber].split()[0] raises IndexError on a short row and on a cell
\* that is empty or all whitespace
DupsCellBad(item) ==
    IF Len(item) <= colnumber THEN TRUE ELSE Strip(item[colnumber + 1]) = <<>>

\* one iteration of the loop of line 58
DupsRow ==
    /\ pc = "dups_loop"
    /\ n < Len(wks)
    /\ ~DupsCellBad(wks[n + 1])
    /\ LET new == FinddupsRow(unique_dict, mismatches,
                              Cell(wks, n, colnumber), n + 1)
       IN  unique_dict' = new[1] /\ mismatches' = new[2]
    /\ n' = n + 1
    /\ UNCHANGED <<pc, rd, tableVars, concepts_dict, prev, diffVars,
                   extractVars, syntaxVars, similarVars, mainVars>>

DupsRowRaises ==
    /\ pc = "dups_loop"
    /\ n < Len(wks)
    /\ DupsCellBad(wks[n + 1])
    /\ pc' = "raised"
    /\ UNCHANGED <<rd, tableVars, rowLoopVars, prev, diffVars, extractVars,
                   syntaxVars, similarVars, mainVars>>

\* lines 66-69: finddups returns the keys with more than one entry
DupsReturn ==
    /\ pc = "dups_loop"
    /\ n = Len(wks)
    /\ mismatches' = FinddupsKeep(mismatches)
    /\ pc' = "dups_report"
    /\ UNCHANGED <<rd, tableVars, n, concepts_dict, unique_dict, prev,
                   diffVars, extractVars, syntaxVars, similarVars, mainVars>>

\* build_finddups_report, lines 76-105
DupsReport ==
    /\ pc = "dups_report"
    /\ rd' = rd \o
         IF DOMAIN mismatches # {}
         THEN <<StatusLine("dups", "Failed"), BlankLine, HeaderLine("dups")>>
              \o MismatchLines("dups", mismatches, 1, TargetsTitleCount)
              \o <<BlankLine, BlankLine>>
         ELSE <<StatusLine("dups", "Passed")>>
    /\ mismatches' = AddTitleCount(mismatches, TargetsTitleCount)
    /\ pc' = "dups_done"
    /\ UNCHANGED <<tableVars, n, concepts_dict, unique_dict, prev, diffVars,
                   extractVars, syntaxVars, similarVars, mainVars>>

DupsNext == DupsRow \/ DupsRowRaises \/ DupsReturn \/ DupsReport

SpecDups == DupsInit /\ [][DupsNext]_vars

-----------------------------------------------------------------------------
(* cesrsalad.py: missing_concept_code_from_target_sheet, called for the two *)
(* sheets and then for the two sheets exchanged                             *)

\* "C1", "C2", "C3"
DiffCodes == {<<67, 49>>, <<67, 50>>, <<67, 51>>}

\* rows of the two sheets; only the concept code is read, and a row with no
\* cell at all makes get_column raise
DiffRowsBia == {BiaRow(c, <<>>, <<>>) : c \in DiffCodes} \cup {<<>>}
DiffRowsTarget == {<<c>> : c \in DiffCodes} \cup {<<>>}

\* lines 175-179 with both differences taken in the same direction
MissingSameDirection(sheet, target_sheet) ==
    LET concept_code == Range(get_column(sheet, ConceptCol))
        concept_code_from_target_sheet == Range(get_column(target_sheet, ConceptCol))
    IN  <<concept_code_from_target_sheet \ concept_code,
          concept_code_from_target_sheet \ concept_code>>

\* lines 175-179: <<missing_in_sheet_1, missing_in_sheet_2>>
MissingConceptCodes(sheet, target_sheet) ==
    LET concept_code == Range(get_column(sheet, ConceptCol))
        concept_code_from_target_sheet == Range(get_column(target_sheet, ConceptCol))
    IN  <<concept_code_from_target_sheet \ concept_code,
          concept_code \ concept_code_from_target_sheet>>

\* the orders in which "for x in <set>" can visit a set
OrdersOf(S) == {f \in [1..Cardinality(S) -> S] : Range(f) = S}

\* lines 182-211 and 214-243: the status line and the codes, one per line
MissingLines(test, order) ==
    IF order = <<>>
    THEN <<StatusLine(test, "Passed"), BlankLine>>
    ELSE <<StatusLine(test, "Failed"), BlankLine, HeaderLine(test)>>
         \o [i \in DOMAIN order |-> DetailLine(test, <<order[i]>>)]
         \o <<BlankLine, BlankLine>>

HasEmptyRow(sheet) == \E i \in DOMAIN sheet : sheet[i] = <<>>

DiffInit ==
    /\ pc = "diff_start"
    /\ wks \in TablesOver(DiffRowsBia, MaxRows)
    /\ wks_target_mapping \in TablesOver(DiffRowsTarget, MaxRows)
    /\ colnumber = 0
    /\ missing_in_sheet_1 = {}
    /\ missing_in_sheet_2 = {}
    /\ prev = <<>>
    /\ rd = <<>>
    /\ NoRowLoop /\ NoExtract /\ NoSyntax /\ NoSimilar /\ NoMain

\* lines 175-179
DiffCompute ==
    /\ pc = "diff_start"
    /\ ~HasEmptyRow(wks \o wks_target_mapping)
    /\ LET m == MissingConceptCodes(wks, wks_target_mapping)
       IN  missing_in_sheet_1' = m[1] /\ missing_in_sheet_2' = m[2]
    /\ pc' = "diff_report_1"
    /\ UNCHANGED <<rd, tableVars, rowLoopVars, prev, extractVars, syntaxVars,
                   similarVars, mainVars>>

\* a[colnumber] of get_column raises IndexError on a row without cells
DiffRaises ==
    /\ pc = "diff_start"
    /\ HasEmptyRow(wks \o wks_target_mapping)
    /\ pc' = "raised"
    /\ UNCHANGED <<rd, tableVars, rowLoopVars, diffVars, prev, extractVars,
                   syntaxVars, similarVars, mainVars>>

\* lines 182-211
DiffReport1 ==
    /\ pc = "diff_report_1"
    /\ \E order \in OrdersOf(missing_in_sheet_1) :
          rd' = rd \o MissingLines("missing from target sheet", order)
    /\ pc' = "diff_report_2"
    /\ UNCHANGED <<tableVars, rowLoopVars, diffVars, prev, extractVars,
                   syntaxVars, similarVars, mainVars>>

\* lines 214-243
DiffReport2 ==
    /\ pc = "diff_report_2"
    /\ \E order \in OrdersOf(missing_in_sheet_2) :
          rd' = rd \o MissingLines("missing from this sheet", order)
    /\ pc' = "diff_done"
    /\ UNCHANGED <<tableVars, rowLoopVars, diffVars, prev, extractVars,
                   syntaxVars, similarVars, mainVars>>

\* a second call, with the two sheets exchanged; prev keeps the result of
\* the first
DiffExchanged ==
    /\ pc = "diff_done"
    /\ prev = <<>>
    /\ prev' = <<missing_in_sheet_1, missing_in_sheet_2>>
    /\ wks' = wks_target_mapping
    /\ wks_target_mapping' = wks
    /\ missing_in_sheet_1' = {}
    /\ missing_in_sheet_2' = {}
    /\ rd' = <<>>
    /\ pc' = "diff_start"
    /\ UNCHANGED <<colnumber, rowLoopVars, extractVars, syntaxVars,
                   similarVars, mainVars>>

DiffNext ==
    DiffCompute \/ DiffRaises \/ DiffReport1 \/ DiffReport2 \/ DiffExchanged

SpecDiff == DiffInit /\ [][DiffNext]_vars

-----------------------------------------------------------------------------
(* cesrsalad.py: find_similar_text, on the "SDG Compass Indicators" sheet,  *)
(* run without --deeply-similar and then with it                            *)

IndicatorCol == 5
QaCol == 10
CompassTitleCount == 1
MaxSimRows == 3

\* a similarity is kept in ten-thousandths: 0.7 is 7000
Threshold == 7000
ScoreValues == {7000, 8126}

\* '{:.3f}'.format(similar_val): thousandths, to the nearest
Format3(v) == (v + 5) \div 10

\* "Complete", "Needs Review"
Complete == <<67, 111, 109, 112, 108, 101, 116, 101>>
NeedsReview == <<78, 101, 101, 100, 115, 32, 82, 101, 118, 105, 101, 119>>

CompassRow(indicator, qa) ==
    [c \in 1..(QaCol + 1) |->
        IF c = IndicatorCol + 1 THEN indicator
        ELSE IF c = QaCol + 1 THEN qa
        ELSE <<>>]

\* "", "a", "b", "c"
IndicatorTexts == {<<>>, <<97>>, <<98>>, <<99>>}

\* the "Indicator QA Status" of a row: none, or a reviewed one, 'Needs Review'
\* for the text "a" and 'Complete' for the others
QaCells(t) == {<<>>, IF t = <<97>> THEN NeedsReview ELSE Complete}

\* rows with an indicator, without and with a status, a row without
\* indicator, and a row without cells
CompassRows ==
    UNION {{CompassRow(t, q) : q \in QaCells(t)} : t \in IndicatorTexts \ {<<>>}}
    \cup {CompassRow(<<>>, <<>>), <<>>}

\* the pairs cosine_sim can be called with: val2 comes after val1 in colunique
ScoredPairs ==
    {p \in (IndicatorTexts \ {<<>>}) \X (IndicatorTexts \ {<<>>}) :
        StrLess(p[1], p[2])}

col == get_column(wks, IndicatorCol)
qacol == get_column(wks, QaCol)

\* lines 280-281 keeping the first row only of each text
RECURSIVE FirstLineOf(_, _)
FirstLineOf(x, i) ==
    IF i > Len(col) THEN <<>>
    ELSE IF col[i] = x THEN <<i + CompassTitleCount>>
    ELSE FirstLineOf(x, i + 1)

\* lines 280-281: col_line_dict[x], from enumerate index i - 1 on
RECURSIVE LinesOf(_, _)
LinesOf(x, i) ==
    IF i > Len(col) THEN <<>>
    ELSE (IF col[i] = x THEN <<i + CompassTitleCount>> ELSE <<>>)
         \o LinesOf(x, i + 1)

FirstLineOnly(x) == FirstLineOf(x, 1)

col_line_dict(x) == LinesOf(x, 1)

\* list(set(col)) sorted
RECURSIVE SortedList(_)
SortedList(S) ==
    IF S = {} THEN <<>>
    ELSE LET lo == CHOOSE x \in S : \A y \in S : StrLeq(x, y)
         IN  <<lo>> \o SortedList(S \ {lo})

colunique == SortedList(Range(col))

\* line 344 with the flag taken the wrong way round
BreaksWhenDeep == args.deeply_similar

\* line 344 with the break left out
BreakLeftOut == FALSE

\* line 344: a score at or below the threshold ends the inner loop
BreaksOnMiss == ~args.deeply_similar

\* line 309 taking 'Complete' alone for a reviewed status
ReviewedCompleteOnly(x) == qacol[x - 1 - CompassTitleCount + 1] = Complete

\* line 309
Reviewed(x) == qacol[x - 1 - CompassTitleCount + 1] \in {Complete, NeedsReview}

\* lines 299-342: a pair above the threshold. acc holds all_similar_lines,
\* header_written, the sheet and the calls made so far
SimilarPair(val1, val2, similar_val, acc) ==
    LET similar_lines == <<col_line_dict(val1), val1, col_line_dict(val2), val2>>
        qacoltest == col_line_dict(val1) \o col_line_dict(val2)
        allqacol_filled ==
            IF args.all_similar THEN FALSE
            ELSE \A i \in DOMAIN qacoltest : Reviewed(qacoltest[i])
        lines == IF ~allqacol_filled THEN Append(acc.lines, similar_lines)
                 ELSE acc.lines
        header == Len(lines) > 0 /\ ~acc.header
        sheet1 == IF header
                  THEN acc.sheet \o <<StatusLine("similar", "Failed"), BlankLine,
                                      HeaderLine("similar")>>
                  ELSE acc.sheet
        sheet2 == IF ~allqacol_filled
                  THEN Append(sheet1, DetailLine("similar",
                           <<similar_lines[1], similar_lines[2], similar_lines[3],
                             similar_lines[4], Format3(similar_val)>>))
                  ELSE sheet1
    IN  [lines |-> lines, header |-> (acc.header \/ header), sheet |-> sheet2,
         scored |-> acc.scored]

\* lines 347-351, the last statement of the inner loop's body: the Passed
\* line, written while nothing has been kept
PassedLine(acc) ==
    IF Len(acc.lines) = 0
    THEN [acc EXCEPT !.sheet = Append(@, StatusLine("similar", "Passed"))]
    ELSE acc

\* lines 292-351: the inner loop over rest, what is left of colunique[n1:].
\* continue and break leave the body before its last statement
RECURSIVE InnerLoop(_, _, _)
InnerLoop(val1, rest, acc) ==
    IF rest = <<>> THEN acc
    ELSE LET val2 == Head(rest)
         IN  IF val2 = <<>> THEN InnerLoop(val1, Tail(rest), acc)
             ELSE IF val1 = val2 THEN InnerLoop(val1, Tail(rest), acc)
             ELSE LET similar_val == score[<<val1, val2>>]
                      called == [acc EXCEPT !.scored = Append(@, <<val1, val2>>)]
                  IN  IF similar_val > Threshold
                      THEN InnerLoop(val1, Tail(rest),
                               PassedLine(SimilarPair(val1, val2, similar_val,
                                                      called)))
                      ELSE IF BreaksOnMiss THEN called
                      ELSE InnerLoop(val1, Tail(rest), PassedLine(called))

SimInit ==
    /\ pc = "sim_start"
    /\ wks \in TablesOver(CompassRows, MaxSimRows)
    /\ wks_target_mapping = <<>>
    /\ colnumber = 0
    /\ args \in [deeply_similar : {FALSE}, all_similar : BOOLEAN]
    /\ score \in [ScoredPairs -> ScoreValues]
    /\ n1 = 0
    /\ all_similar_lines = <<>>
    /\ header_written = FALSE
    /\ scored = <<>>
    /\ prev = <<>>
    /\ rd = <<>>
    /\ NoRowLoop /\ NoDiff /\ NoExtract /\ NoSyntax /\ NoMain

\* lines 277-287
SimStart ==
    /\ pc = "sim_start"
    /\ ~HasEmptyRow(wks)
    /\ pc' = "sim_loop"
    /\ UNCHANGED <<rd, tableVars, rowLoopVars, diffVars, prev, extractVars,
                   syntaxVars, similarVars, mainVars>>

\* a[colnumber] of get_column raises IndexError on a short row
SimRaises ==
    /\ pc = "sim_start"
    /\ HasEmptyRow(wks)
    /\ pc' = "raised"
    /\ UNCHANGED <<rd, tableVars, rowLoopVars, diffVars, prev, extractVars,
                   syntaxVars, similarVars, mainVars>>

\* one iteration of the loop of line 289
SimOuter ==
    /\ pc = "sim_loop"
    /\ n1 < Len(colunique)
    /\ \E val1 \in {colunique[n1 + 1]} :
          IF val1 = <<>>
          THEN UNCHANGED <<all_similar_lines, header_written, rd, scored>>
          ELSE \E acc \in {InnerLoop(val1,
                               SubSeq(colunique, n1 + 1, Len(colunique)),
                               [lines |-> all_similar_lines,
                                header |-> header_written,
                                sheet |-> rd, scored |-> scored])} :
                  /\ all_similar_lines' = acc.lines
                  /\ header_written' = acc.header
                  /\ scored' = acc.scored
                  /\ rd' = acc.sheet
    /\ n1' = n1 + 1
    /\ UNCHANGED <<pc, tableVars, rowLoopVars, diffVars, prev, extractVars,
                   syntaxVars, args, score, mainVars>>

\* the loop of line 289 is over and find_similar_text returns
SimReturn ==
    /\ pc = "sim_loop"
    /\ n1 = Len(colunique)
    /\ pc' = "sim_done"
    /\ UNCHANGED <<rd, tableVars, rowLoopVars, diffVars, prev, extractVars,
                   syntaxVars, similarVars, mainVars>>

\* a second run on the same sheet, with --deeply-similar; prev keeps what the
\* first run emitted
SimOtherMode ==
    /\ pc = "sim_done"
    /\ ~args.deeply_similar
    /\ prev' = <<[lines |-> all_similar_lines, sheet |-> rd, scored |-> scored,
                  deeply_similar |-> args.deeply_similar]>>
    /\ args' = [args EXCEPT !.deeply_similar = TRUE]
    /\ n1' = 0
    /\ all_similar_lines' = <<>>
    /\ header_written' = FALSE
    /\ scored' = <<>>
    /\ rd' = <<>>
    /\ pc' = "sim_start"
    /\ UNCHANGED <<tableVars, rowLoopVars, diffVars, extractVars, syntaxVars,
                   score, mainVars>>

SimNext == SimStart \/ SimRaises \/ SimOuter \/ SimReturn \/ SimOtherMode

SpecSim == SimInit /\ [][SimNext]_vars

-----------------------------------------------------------------------------
(* utils.py: validate_target_format, and its report in cesrsalad.py         *)

\* "", "3.1", "3.1\n3.", "x\n3.", "12.a\n3.1 \n3.x", and "3.1" with the
\* Arabic-Indic digit three
FormatCells ==
    {<<>>, <<51, 46, 49>>, <<51, 46, 49, 10, 51, 46>>, <<120, 10, 51, 46>>,
     <<49, 50, 46, 97, 10, 51, 46, 49, 32, 10, 51, 46, 120>>,
     <<1635, 46, 49>>}

\* "", "7.A"
FormatIndirectCells == {<<>>, <<55, 46, 65>>}

\* full rows, and a row cut short after the concept code
FormatRows ==
    {BiaRow(<<67, 49>>, d, i) : d \in FormatCells, i \in FormatIndirectCells}
    \cup {<<<<67, 49>>>>}

\* syntax.match(a) is None
NoMatch(a) == ~SyntaxMatch(a)

\* lines 32-35 of utils.py: mismatches after the row numbered row
FormatRowStep(m, target_list, row) ==
    LET invalid_list == SelectSeq(target_list, NoMatch)
    IN  IF Len(invalid_list) > 0 THEN m @@ (row :> invalid_list) ELSE m

\* ",".join("'{}'".format(str(y)) for y in list)
QuotedJoin(list) ==
    Join([i \in DOMAIN list |-> <<39>> \o list[i] \o <<39>>], <<44>>)

\* lines 110-114: a row of the table per key of mismatches, in row order
FormatLines(m, title_count) ==
    LET keys == ByRank(DOMAIN m, [k \in DOMAIN m |-> k])
    IN  [i \in DOMAIN keys |->
            DetailLine("syntax", <<keys[i] + title_count,
                                   QuotedJoin(m[keys[i]])>>)]

FormatInit ==
    /\ pc = "format_loop"
    /\ wks \in TablesOver(FormatRows, MaxRows)
    /\ colnumber \in {DirectCol, IndirectCol}
    /\ wks_target_mapping = <<>>
    /\ n = 0
    /\ concepts_dict = <<>>
    /\ mismatches = <<>>
    /\ unique_dict = <<>>
    /\ prev = <<>>
    /\ rd = <<>>
    /\ NoDiff /\ NoExtract /\ NoSyntax /\ NoSimilar /\ NoMain

\* one iteration of the loop of line 31 of utils.py
FormatRow ==
    /\ pc = "format_loop"
    /\ n < Len(wks)
    /\ Len(wks[n + 1]) > colnumber
    /\ mismatches' = FormatRowStep(mismatches,
                                   get_target_list(wks, n, colnumber), n + 1)
    /\ n' = n + 1
    /\ UNCHANGED <<pc, rd, tableVars, concepts_dict, unique_dict, prev,
                   diffVars, extractVars, syntaxVars, similarVars, mainVars>>

\* worksheet[row][col] of get_target_list raises IndexError on a short row
FormatRowRaises ==
    /\ pc = "format_loop"
    /\ n < Len(wks)
    /\ Len(wks[n + 1]) <= colnumber
    /\ pc' = "raised"
    /\ UNCHANGED <<rd, tableVars, rowLoopVars, prev, diffVars, extractVars,
                   syntaxVars, similarVars, mainVars>>

\* lines 88-119 of cesrsalad.py: the status line and the table
FormatReport ==
    /\ pc = "format_loop"
    /\ n = Len(wks)
    /\ rd' = rd \o
         IF DOMAIN mismatches = {}
         THEN <<StatusLine("syntax", "Passed"), BlankLine>>
         ELSE <<StatusLine("syntax", "Failed"), BlankLine, HeaderLine("syntax")>>
              \o FormatLines(mismatches, BiaTitleCount)
              \o <<BlankLine, BlankLine>>
    /\ pc' = "format_done"
    /\ UNCHANGED <<tableVars, rowLoopVars, prev, diffVars, extractVars,
                   syntaxVars, similarVars, mainVars>>

FormatNext == FormatRow \/ FormatRowRaises \/ FormatReport

SpecFormat == FormatInit /\ [][FormatNext]_vars

-----------------------------------------------------------------------------
(* cesrsalad.py: main, with the passes validate and sync run to their end   *)
(* or to the first exception                                                *)

MaxMainRows == 1

\* the worksheets main reads, by the title they have in the spreadsheet
BiaSheet == "BIA to SDG mapping"
MappingSheet == "BIA to SDG Target Mapping"
CompassSheet == "SDG Compass Indicators"
TargetsSheet == "SDG Targets"

\* a row of "SDG Compass Indicators" with a goal, a target and an indicator
MainCompassRow(goal) ==
    [c \in 1..(QaCol + 1) |->
        IF c = GoalCol + 1 THEN goal
        ELSE IF c = TargetCol + 1 THEN <<51, 46, 49, 32, 97>>
        ELSE IF c = IndicatorCol + 1 THEN <<97>>
        ELSE <<>>]

\* rows with the direct target "3.1" or "3.2", and a row cut short
MainBiaRows ==
    {BiaRow(<<67, 49>>, d, <<>>) : d \in {<<51, 46, 49>>, <<51, 46, 50>>}}
    \cup {<<<<67, 49>>>>}

MainMappingRows == {<<<<67, 49>>>>, <<>>}

\* goal "3", a blank goal, and a row cut short
MainCompassRows == {MainCompassRow(<<51>>), MainCompassRow(<<32>>), <<<<>>>>}

MainTargetsRows ==
    {TargetsRow(<<51>>, <<51, 46, 49, 32, 97>>),
     TargetsRow(<<32>>, <<51, 46, 49, 32, 97>>), <<<<>>>>}

\* what download_and_remove_title can return
WorksheetDicts ==
    {(BiaSheet :> b) @@ (MappingSheet :> m) @@ (CompassSheet :> c)
         @@ (TargetsSheet :> t) :
        b \in TablesOver(MainBiaRows, MaxMainRows),
        m \in TablesOver(MainMappingRows, MaxMainRows),
        c \in TablesOver(MainCompassRows, MaxMainRows),
        t \in TablesOver(MainTargetsRows, MaxMainRows)}

\* row[c] raises IndexError for some row of the sheet
ShortRow(sheet, c) == \E i \in DOMAIN sheet : Len(sheet[i]) <= c

\* item[c].split()[0] raises IndexError for some row of the sheet
NoFirstToken(sheet, c) ==
    \E i \in DOMAIN sheet :
        IF Len(sheet[i]) <= c THEN TRUE ELSE Strip(sheet[i][c + 1]) = <<>>

\* validate raises: the validators in the order of lines 478-502, each
\* reading the columns it reads
ValidateRaises(wd) ==
    \/ ShortRow(wd[BiaSheet], IndirectCol)
    \/ ShortRow(wd[MappingSheet], ConceptCol)
    \/ NoFirstToken(wd[CompassSheet], GoalCol)
    \/ NoFirstToken(wd[CompassSheet], TargetCol)
    \/ ShortRow(wd[CompassSheet], QaCol)
    \/ NoFirstToken(wd[TargetsSheet], GoalCol)
    \/ NoFirstToken(wd[TargetsSheet], TargetCol)

\* get_valid_target_map: the valid targets of the first row of each code
valid_target_map(sheet, c) ==
    [code \in {sheet[i][ConceptCol + 1] : i \in DOMAIN sheet} |->
        LET first == CHOOSE i \in DOMAIN sheet :
                        /\ sheet[i][ConceptCol + 1] = code
                        /\ \A j \in 1..(i - 1) : sheet[j][ConceptCol + 1] # code
        IN  SelectSeq(build_target_list(sheet[first][c + 1]), SyntaxMatch)]

\* build_target_map: the keys of target_map
target_map_keys(sheet) ==
    {FirstToken(sheet[i][TargetCol + 1]) : i \in DOMAIN sheet}

\* sync raises before its loop: IndexError at lines 517-520 or 529
SyncIndexError(wd) ==
    \/ NoFirstToken(wd[TargetsSheet], TargetCol)
    \/ ShortRow(wd[BiaSheet], DirectCol)

\* one row of the loop of line 531: row[0] raises IndexError on a row without
\* cells, target_text_map[targets[n]] raises KeyError
SyncRowError(wd, row) ==
    LET valid == valid_target_map(wd[BiaSheet], DirectCol)
    IN  IF Len(row) <= ConceptCol THEN "IndexError"
        ELSE IF row[ConceptCol + 1] \notin DOMAIN valid THEN "none"
        ELSE IF Range(valid[row[ConceptCol + 1]]) \subseteq
                    target_map_keys(wd[TargetsSheet])
        THEN "none"
        ELSE "KeyError"

\* what sync raises before update_cells: the error of the first failing row
SyncError(wd) ==
    IF SyncIndexError(wd) THEN "IndexError"
    ELSE LET rows == wd[MappingSheet]
             bad == {i \in DOMAIN rows : SyncRowError(wd, rows[i]) # "none"}
         IN  IF bad = {} THEN "none"
             ELSE SyncRowError(wd, rows[CHOOSE i \in bad : \A j \in bad : i <= j])

MainInit ==
    /\ pc = "main_initialize"
    /\ args \in [action : {"validate", "sync"}, deeply_similar : {FALSE},
                 all_similar : {FALSE}]
    /\ worksheet_dict = <<>>
    /\ error = "none"
    /\ reported = FALSE
    /\ exit_status = <<>>
    /\ score = <<>>
    /\ n1 = 0
    /\ all_similar_lines = <<>>
    /\ header_written = FALSE
    /\ scored = <<>>
    /\ prev = <<>>
    /\ rd = <<>>
    /\ NoTables /\ NoRowLoop /\ NoDiff /\ NoExtract /\ NoSyntax

\* initialize_google: raises when the credentials file is missing or the
\* authorization fails
MainInitialize ==
    /\ pc = "main_initialize"
    /\ \E ok \in BOOLEAN :
          IF ok THEN pc' = "main_open" /\ error' = error
          ELSE pc' = "main_except" /\ error' = "Exception"
    /\ UNCHANGED <<rd, tableVars, rowLoopVars, diffVars, prev, extractVars,
                   syntaxVars, similarVars, worksheet_dict, reported,
                   exit_status>>

\* open_spreadsheet: the fetch of the spreadsheet by name can fail
MainOpen ==
    /\ pc = "main_open"
    /\ \E ok \in BOOLEAN :
          IF ok THEN pc' = "main_download" /\ error' = error
          ELSE pc' = "main_except" /\ error' = "SpreadsheetNotFound"
    /\ UNCHANGED <<rd, tableVars, rowLoopVars, diffVars, prev, extractVars,
                   syntaxVars, similarVars, worksheet_dict, reported,
                   exit_status>>

\* download_and_remove_title: the worksheets are fetched, or the fetch fails
MainDownload ==
    /\ pc = "main_download"
    /\ \E ok \in BOOLEAN :
          IF ok
          THEN /\ worksheet_dict' \in WorksheetDicts
               /\ pc' = "main_pass"
               /\ error' = error
          ELSE /\ worksheet_dict' = worksheet_dict
               /\ pc' = "main_except"
               /\ error' = "APIError"
    /\ UNCHANGED <<rd, tableVars, rowLoopVars, diffVars, prev, extractVars,
                   syntaxVars, similarVars, reported, exit_status>>

\* lines 624-628: validate ends, or raises on its way
MainValidate ==
    /\ pc = "main_pass"
    /\ args.action = "validate"
    /\ IF ValidateRaises(worksheet_dict)
       THEN pc' = "main_except" /\ error' = "IndexError"
       ELSE pc' = "main_return" /\ error' = error
    /\ UNCHANGED <<rd, tableVars, rowLoopVars, diffVars, prev, extractVars,
                   syntaxVars, similarVars, worksheet_dict, reported,
                   exit_status>>

\* lines 629-630: sync ends, or raises on its way; update_cells of line 551
\* writes to the spreadsheet and can fail
MainSync ==
    /\ pc = "main_pass"
    /\ args.action = "sync"
    /\ IF SyncError(worksheet_dict) # "none"
       THEN pc' = "main_except" /\ error' = SyncError(worksheet_dict)
       ELSE \E ok \in BOOLEAN :
               IF ok THEN pc' = "main_return" /\ error' = error
               ELSE pc' = "main_except" /\ error' = "APIError"
    /\ UNCHANGED <<rd, tableVars, rowLoopVars, diffVars, prev, extractVars,
                   syntaxVars, similarVars, worksheet_dict, reported,
                   exit_status>>

\* lines 633-635: the handler prints the traceback and the error
MainExcept ==
    /\ pc = "main_except"
    /\ reported' = TRUE
    /\ pc' = "main_return"
    /\ UNCHANGED <<rd, tableVars, rowLoopVars, diffVars, prev, extractVars,
                   syntaxVars, similarVars, worksheet_dict, error,
                   exit_status>>

\* main returns and the script ends: the interpreter exits with status 0
MainReturn ==
    /\ pc = "main_return"
    /\ exit_status' = <<0>>
    /\ pc' = "exited"
    /\ UNCHANGED <<rd, tableVars, rowLoopVars, diffVars, prev, extractVars,
                   syntaxVars, similarVars, worksheet_dict, error, reported>>

MainNext ==
    \/ MainInitialize \/ MainOpen \/ MainDownload \/ MainValidate
    \/ MainSync \/ MainExcept \/ MainReturn

SpecMain == MainInit /\ [][MainNext]_vars

-----------------------------------------------------------------------------
(* Properties                                                               *)
-----------------------------------------------------------------------------

Count(list, x) == Cardinality({i \in DOMAIN list : list[i] = x})

\* the members of a set of numbers as an ascending list
RECURSIVE Ascending(_)
Ascending(S) ==
    IF S = {} THEN <<>>
    ELSE LET lo == CHOOSE i \in S : \A j \in S : i <= j
         IN  <<lo>> \o Ascending(S \ {lo})

(* crossvalidate_with_concept_code, after n rows *)

RowKey(i) == wks[i][ConceptCol + 1]
RowTargets(i) == build_target_list(wks[i][colnumber + 1])
KeysSeen == {RowKey(i) : i \in 1..n}
FirstRowOf(k) == CHOOSE i \in 1..n : RowKey(i) = k /\ \A j \in 1..(i - 1) : RowKey(j) # k
DivergentRows(k) ==
    {i \in 1..n : RowKey(i) = k /\ RowTargets(i) # RowTargets(FirstRowOf(k))}
EntryOf(i) == <<RowTargets(i), i>>

\* C1: every row after the first whose target list differs from the one of
\* the key's first row is in the key's mismatch group: a key with k divergent
\* rows has the first-seen entry and then its k divergent rows, in row order
C1_EveryDivergentRowRecorded ==
    pc = "cross_loop" =>
        \A k \in KeysSeen :
            DivergentRows(k) # {} =>
                /\ k \in DOMAIN mismatches
                /\ mismatches[k] =
                     <<EntryOf(FirstRowOf(k))>> \o
                     [j \in 1..Cardinality(DivergentRows(k)) |->
                         EntryOf(Ascending(DivergentRows(k))[j])]

\* C2: a concept code is in the result exactly when a row of that code has a
\* target list unlike the one of the code's first row, which stays the
\* recorded one; no divergence anywhere gives an empty result
C2_KeyReportedIffDivergent ==
    pc = "cross_loop" =>
        /\ DOMAIN mismatches = {k \in KeysSeen : DivergentRows(k) # {}}
        /\ DOMAIN concepts_dict = KeysSeen
        /\ \A k \in KeysSeen : concepts_dict[k] = EntryOf(FirstRowOf(k))

\* three rows: a code with a divergent row, which is reported, and a code
\* without one, which is not
C2_Witness ==
    /\ pc = "cross_loop"
    /\ n = 3
    /\ \E k \in KeysSeen : DivergentRows(k) # {} /\ k \in DOMAIN mismatches
    /\ \E k \in KeysSeen : DivergentRows(k) = {} /\ k \notin DOMAIN mismatches

\* C3: a code with exactly one divergent row has a group of two entries, the
\* first-seen [value, row] and then the divergent one
C3_OneDivergentRowGivesTwoEntries ==
    pc = "cross_loop" =>
        \A k \in KeysSeen :
            Cardinality(DivergentRows(k)) = 1 =>
                /\ k \in DOMAIN mismatches
                /\ mismatches[k] =
                     <<EntryOf(FirstRowOf(k)),
                       EntryOf(CHOOSE i \in DivergentRows(k) : TRUE)>>

\* rows C1:"3.1\n3.2", C1:"3.2\n3.1", C1:"3.2" give [["3.1","3.2"],1], [["3.2"],3]
C3_Witness ==
    /\ pc = "cross_loop"
    /\ n = 3
    /\ colnumber = DirectCol
    /\ \A i \in 1..3 : RowKey(i) = <<67, 49>>
    /\ wks[1][DirectCol + 1] = <<51, 46, 49, 10, 51, 46, 50>>
    /\ wks[2][DirectCol + 1] = <<51, 46, 50, 10, 51, 46, 49>>
    /\ wks[3][DirectCol + 1] = <<51, 46, 50>>
    /\ mismatches = (<<67, 49>> :>
            << <<<<<<51, 46, 49>>, <<51, 46, 50>>>>, 1>>,
               <<<<<<51, 46, 50>>>>, 3>> >>)

(* the target syntax *)

\* one or two digits, a dot, then one or two digits or one lowercase letter,
\* and nothing else
Grammar(s) ==
    \E d \in 1..2 :
        /\ Len(s) \in {d + 2, d + 3}
        /\ \A k \in 1..d : s[k] \in 48..57
        /\ s[d + 1] = DOT
        /\ \/ \A k \in (d + 2)..Len(s) : s[k] \in 48..57
           \/ Len(s) = d + 2 /\ s[d + 2] \in 97..122

WantedLine(x) == x # <<>> /\ ~IsAlpha(x[1]) /\ x[1] # QMARK

\* C8: the list returned holds exactly the trimmed lines of the cell that are
\* not empty and start with neither a letter nor '?', each as often as it
\* occurs, in sorted order
C8_ExtractKeepsTargetLines ==
    pc = "built" =>
        LET lines == SplitLines(colval)
            trimmed == [i \in DOMAIN lines |-> Strip(lines[i])]
        IN  /\ \A i, j \in DOMAIN tlist : i < j => StrLeq(tlist[i], tlist[j])
            /\ \A x \in Range(tlist) \cup Range(trimmed) :
                  Count(tlist, x) = IF WantedLine(x) THEN Count(trimmed, x) ELSE 0

\* three lines: two kept and put in order, one dropped
C8_Witness ==
    /\ pc = "built"
    /\ Len(SplitLines(colval)) = 3
    /\ Len(tlist) = 2
    /\ StrLess(tlist[1], tlist[2])
    /\ Strip(SplitLines(colval)[1]) = tlist[2]

\* C9: extracting from the newline-joined result of an extraction gives the
\* same list
C9_ExtractIdempotent == pc = "rebuilt" => tlist = prev

C9_Witness ==
    /\ pc = "rebuilt"
    /\ Len(prev) = 2
    /\ prev[1] # prev[2]
    /\ colval # Join(prev, <<NL>>)
    /\ Len(SplitLines(colval)) = 3

(* finddups *)

DupValue(i) == wks[i][colnumber + 1]
DupKey(i) == Cid(FirstToken(DupValue(i)))
DupValuesOf(k) == {DupValue(i) : i \in {j \in DOMAIN wks : DupKey(j) = k}}

\* C4: finddups returns exactly the keys that have at least two distinct
\* full cell values, so no returned list has one entry or none, and nothing
\* is returned when no key has two different values
C4_ReturnsKeysWithDistinctValues ==
    pc = "dups_report" =>
        /\ DOMAIN mismatches =
             {k \in {DupKey(i) : i \in DOMAIN wks} : Cardinality(DupValuesOf(k)) >= 2}
        /\ \A k \in DOMAIN mismatches : Len(mismatches[k]) > 1

\* three rows: one key returned, and a key with one value on two rows, or a
\* third row repeating a value of the returned key
C4_Witness ==
    /\ pc = "dups_report"
    /\ Len(wks) = 3
    /\ \E k \in DOMAIN mismatches : Len(mismatches[k]) = 2
    /\ \E i, j \in DOMAIN wks : i # j /\ DupValue(i) = DupValue(j)

(* missing_concept_code_from_target_sheet *)

CodesOf(sheet) == {sheet[i][ConceptCol + 1] : i \in DOMAIN sheet}

\* C10: the two components are the codes only in the second sheet and the
\* codes only in the first, both empty when the sheets have the same codes,
\* and the call with the sheets exchanged gives the two components exchanged
C10_DiffSymmetric ==
    pc = "diff_report_1" =>
        /\ missing_in_sheet_1 = CodesOf(wks_target_mapping) \ CodesOf(wks)
        /\ missing_in_sheet_2 = CodesOf(wks) \ CodesOf(wks_target_mapping)
        /\ CodesOf(wks) = CodesOf(wks_target_mapping) =>
               missing_in_sheet_1 = {} /\ missing_in_sheet_2 = {}
        /\ prev # <<>> =>
               <<missing_in_sheet_1, missing_in_sheet_2>> = <<prev[2], prev[1]>>

C10_Witness ==
    /\ pc = "diff_report_1"
    /\ prev # <<>>
    /\ missing_in_sheet_1 # {}
    /\ missing_in_sheet_2 # {}
    /\ missing_in_sheet_1 # missing_in_sheet_2

(* find_similar_text *)

DetailsOf(sheet) == {sheet[i] : i \in {j \in DOMAIN sheet : sheet[j][1] = "detail"}}

\* C5: every pair the run without --deeply-similar emits, the run with it
\* emits too, with the same rows and the same score
C5_FastWithinDeep ==
    (pc = "sim_done" /\ args.deeply_similar) =>
        /\ Range(prev[1].lines) \subseteq Range(all_similar_lines)
        /\ DetailsOf(prev[1].sheet) \subseteq DetailsOf(rd)

\* the fast run found a pair and the deep run one more
C5_Witness ==
    /\ pc = "sim_done"
    /\ args.deeply_similar
    /\ Len(prev[1].lines) = 1
    /\ Len(all_similar_lines) = 2
    /\ Len(prev[1].scored) < Len(scored)

RowsOf(x) ==
    LET rows == Ascending({i \in DOMAIN wks : wks[i][IndicatorCol + 1] = x})
    IN  [k \in DOMAIN rows |-> rows[k] + CompassTitleCount]

PairOf(p) == {p[1], p[2]}

\* C6: no text is scored against itself, the empty text is never scored, a
\* pair of texts is scored at most once in a run and exactly once in a run
\* with --deeply-similar, and an emitted pair carries all the rows of each of
\* its two texts, in ascending order, once per pair of texts
C6_DuplicatesCoalesced ==
    pc \in {"sim_loop", "sim_done"} =>
        /\ \A i \in DOMAIN scored :
              scored[i][1] # scored[i][2] /\ <<>> \notin PairOf(scored[i])
        /\ \A i, j \in DOMAIN scored :
              i # j => PairOf(scored[i]) # PairOf(scored[j])
        /\ (pc = "sim_done" /\ args.deeply_similar) =>
              \A u, v \in Range(col) \ {<<>>} :
                  u # v => \E i \in DOMAIN scored : PairOf(scored[i]) = {u, v}
        /\ \A i \in DOMAIN all_similar_lines :
              /\ all_similar_lines[i][1] = RowsOf(all_similar_lines[i][2])
              /\ all_similar_lines[i][3] = RowsOf(all_similar_lines[i][4])
        /\ \A i, j \in DOMAIN all_similar_lines :
              i # j => <<all_similar_lines[i][2], all_similar_lines[i][4]>> #
                       <<all_similar_lines[j][2], all_similar_lines[j][4]>>

\* a text on two rows, paired once with both its rows
C6_Witness ==
    /\ pc = "sim_done"
    /\ args.deeply_similar
    /\ Len(wks) = 3
    /\ Len(all_similar_lines) = 1
    /\ Len(all_similar_lines[1][1]) + Len(all_similar_lines[1][3]) = 3
    /\ Len(scored) = 1

(* the status lines of the report *)

\* the lines of a category on the sheet: one status line, Failed when the
\* category has findings and Passed when it has none, above its detail rows
OneStatusLine(sheet, test, failed) ==
    LET st == {i \in DOMAIN sheet : sheet[i][1] = "status" /\ sheet[i][2] = test}
    IN  /\ Cardinality(st) = 1
        /\ \A i \in st :
              /\ sheet[i][3] = IF failed THEN "Failed" ELSE "Passed"
              /\ \A j \in DOMAIN sheet :
                    (sheet[j][1] = "detail" /\ sheet[j][2] = test) => i < j

\* C11: when a validator has finished, the sheet holds exactly one status
\* line of its category, Passed when it found nothing and Failed when it
\* found something, and the line comes before every detail row of the category
C11_OneStatusLinePerCategory ==
    /\ pc = "sim_done" =>
          OneStatusLine(rd, "similar", all_similar_lines # <<>>)
    /\ pc = "cross_done" => OneStatusLine(rd, "cross", DOMAIN mismatches # {})
    /\ pc = "dups_done" => OneStatusLine(rd, "dups", DOMAIN mismatches # {})
    /\ pc = "format_done" =>
          OneStatusLine(rd, "syntax", DOMAIN mismatches # {})
    /\ pc = "diff_done" =>
          /\ OneStatusLine(rd, "missing from target sheet",
                           missing_in_sheet_1 # {})
          /\ OneStatusLine(rd, "missing from this sheet",
                           missing_in_sheet_2 # {})


(* main *)

\* C12: when an exception was raised during the pass, the error is printed
\* and the process ends with an exit status other than 0
C12_ErrorExitsNonZero ==
    (pc = "exited" /\ error # "none") =>
        (reported /\ exit_status # <<0>>)

(* what aborts a validator *)

\* C13: a validator raises only on a row that is shorter than the column it
\* reads: rows of the full width, whatever their cells hold, are worked
\* through to the end
C13_OnlyShortRowsAbort ==
    pc = "raised" => Len(wks[n + 1]) <= colnumber

(* validate_target_format *)

NotGrammar(a) == ~Grammar(a)

\* C14: after any number of rows the result holds, under the 1-based number
\* of a row, the extracted entries of the row that are not identifiers of the
\* grammar, in their order; a row is a key exactly when it has such an entry,
\* and no entry of the grammar is in the result
C14_ResultIsTheFailingEntries ==
    pc = "format_loop" =>
        /\ DOMAIN mismatches =
             {i \in 1..n : SelectSeq(RowTargets(i), NotGrammar) # <<>>}
        /\ \A i \in DOMAIN mismatches :
              mismatches[i] = SelectSeq(RowTargets(i), NotGrammar)

(* find_similar_text: the traversal and the filter *)

\* the calls the traversal makes for the text at index i of the sorted list
\* of distinct texts: the texts after it, in order, all of them with
\* --deeply-similar, and without it up to the first one whose score is not
\* above the threshold
ExpectedCalls(i) ==
    LET val1 == colunique[i]
        following == SubSeq(colunique, i + 1, Len(colunique))
        miss == {k \in DOMAIN following :
                    score[<<val1, following[k]>>] <= Threshold}
        last == IF args.deeply_similar \/ miss = {} THEN Len(following)
                ELSE CHOOSE k \in miss : \A j \in miss : k <= j
    IN  IF val1 = <<>> THEN <<>>
        ELSE [k \in 1..last |-> <<val1, following[k]>>]

ExpectedScored == Flatten([i \in 1..n1 |-> ExpectedCalls(i)])

AboveThreshold(p) == score[p] > Threshold

\* C15: without --deeply-similar the texts after index i are scored in sorted
\* order up to and including the first whose score is at or below the
\* threshold, so the pairs found for i are the unbroken run of texts above
\* the threshold that follows i and nothing after the run is scored; with
\* --deeply-similar every text after i is scored
C15_FastStopsAtFirstMiss ==
    pc \in {"sim_loop", "sim_done"} => scored = ExpectedScored

\* three texts: the run without --deeply-similar stops at the second text
\* and never scores the third, which is above the threshold; the run with
\* --deeply-similar scores it
C15_Witness ==
    /\ pc = "sim_done"
    /\ args.deeply_similar
    /\ Len(colunique) = 3
    /\ colunique[1] # <<>>
    /\ ~AboveThreshold(<<colunique[1], colunique[2]>>)
    /\ AboveThreshold(<<colunique[1], colunique[3]>>)
    /\ <<colunique[1], colunique[3]>> \notin Range(prev[1].scored)
    /\ <<colunique[1], colunique[2]>> \in Range(prev[1].scored)
    /\ <<colunique[1], colunique[3]>> \in Range(scored)

\* the statuses of the rows that hold the text x
QaOf(x) ==
    {wks[i][QaCol + 1] : i \in {j \in DOMAIN wks : wks[j][IndicatorCol + 1] = x}}

Suppressed(p) ==
    /\ ~args.all_similar
    /\ QaOf(p[1]) \cup QaOf(p[2]) \subseteq {Complete, NeedsReview}

Emitted(p) == AboveThreshold(p) /\ ~Suppressed(p)

DetailRows(sheet) == SelectSeq(sheet, LAMBDA l : l[1] = "detail")

TokenOf(v) ==
    LET start == CHOOSE i \in DOMAIN v :
                    ~IsSpace(v[i]) /\ \A j \in 1..(i - 1) : IsSpace(v[j])
        end == CHOOSE j \in start..Len(v) :
                    /\ \A k \in start..j : ~IsSpace(v[k])
                    /\ (j < Len(v) => IsSpace(v[j + 1]))
    IN  SubSeq(v, start, end)

\* the token with one '.' at its end removed
GroupKey(v) ==
    LET t == TokenOf(v)
    IN  IF t[Len(t)] = DOT THEN SubSeq(t, 1, Len(t) - 1) ELSE t

\* the rows, among the first n, that hold a value of key k for the first time
FirstRows(k) ==
    Ascending({i \in 1..n :
                  /\ GroupKey(DupValue(i)) = k
                  /\ \A j \in 1..(i - 1) : DupValue(j) # DupValue(i)})

\* C16: after n rows the keys are the first tokens of the cells with one
\* trailing '.' removed, and the list of a key has one [value, row] entry for
\* each distinct cell value of the key, with the 1-based number of the first
\* row that holds the value, in row order; the lists returned are such too
C16_OneEntryPerDistinctValue ==
    pc \in {"dups_loop", "dups_report"} =>
        /\ pc = "dups_loop" =>
              /\ DOMAIN mismatches = {GroupKey(DupValue(i)) : i \in 1..n}
              /\ DOMAIN unique_dict = DOMAIN mismatches
        /\ \A k \in DOMAIN mismatches :
              /\ mismatches[k] =
                   [j \in DOMAIN FirstRows(k) |->
                       <<DupValue(FirstRows(k)[j]), FirstRows(k)[j]>>]
              /\ unique_dict[k] =
                   {DupValue(i) : i \in {j \in 1..n : GroupKey(DupValue(j)) = k}}

\* the goals "3", "3." and "3" again: one key "3", with "3" of row 1 and
\* "3." of row 2, and nothing for row 3
C16_Witness ==
    /\ pc = "dups_loop"
    /\ n = 3
    /\ colnumber = GoalCol
    /\ DupValue(1) = <<51>> /\ DupValue(2) = <<51, 46>> /\ DupValue(3) = <<51>>
    /\ mismatches = (<<51>> :> << <<<<51>>, 1>>, <<<<51, 46>>, 2>> >>)

====
